---- MODULE Spec2Model ----
(***************************************************************************)
(* Warehouse packout application: the packout workflow screen              *)
(* (PackoutInstructionsScreen), the API service layer with its offline      *)
(* storage manager, and the AsyncStorage key/value store they share.        *)
(*                                                                          *)
(* Handlers are modelled as atomic actions: the UI serialises user actions  *)
(* and every handler is short.  AsyncStorage reads and writes succeed in    *)
(* the specifications below.                                                *)
(***************************************************************************)
EXTENDS Integers, Sequences, FiniteSets, TLC

VARIABLES
    storage,              \* AsyncStorage: function from the keys present to their values
    mounted,              \* the packout screen is open
    packoutSteps,         \* useState: the steps of the workflow
    compliancePhotos,     \* useState: the photos captured in this workflow
    currentStepIndex,     \* useState: 0-based index of the step shown
    showCamera,           \* useState: the camera modal is open
    cameraType,           \* useState: category chosen for the next capture
    showCompletionModal,  \* useState: the "Packout Complete!" modal is open
    pendingLoad,          \* loadPackoutProgress between its getItem and the answer
    clock,                \* the device clock (Date.now()), also numbers the image files
    isAuthenticated,      \* App useState: "unknown" (null), "yes" or "no"
    isLoading,            \* App useState: the loading screen is shown
    bootPc,               \* where initializeApp stands
    bootEvents,           \* what initializeApp has done since the app started
    scanning,             \* ScannerScreen useState: scan events are accepted
    loading,              \* ScannerScreen useState: an order lookup is in flight
    scannedData,          \* ScannerScreen useState: the code scanned, or NoCode
    orderData,            \* ScannerScreen useState: the order shown, or NoOrder
    showOrderModal,       \* ScannerScreen useState: the order modal is open
    last                  \* what the last operation did: its name, the alert it showed,
                          \* the requests it sent and their outcome, whether it threw
                          \* to its caller, the keys it logged, whether it stored
                          \* offline data under a key already present, what it
                          \* returned, the item id it was called with

vars == <<storage, mounted, packoutSteps, compliancePhotos, currentStepIndex,
          showCamera, cameraType, showCompletionModal, pendingLoad, clock,
          isAuthenticated, isLoading, bootPc, bootEvents,
          scanning, loading, scannedData, orderData, showOrderModal, last>>

screenVars == <<mounted, packoutSteps, compliancePhotos, currentStepIndex,
                showCamera, cameraType, showCompletionModal>>

appVars == <<isAuthenticated, isLoading, bootPc, bootEvents>>

scannerVars == <<scanning, loading, scannedData, orderData, showOrderModal>>

----------------------------------------------------------------------------
(* Bounds of the model *)

\* number of steps of the workflow explored (the handlers only use packoutSteps.length)
NumSteps == 2
\* the clock stops at this value: bounds the captures and the offline keys
MaxClock == 2

StepIds == 1..NumSteps

\* ids of the checklist items of a step that are explored
ItemIds == {1, 2}

\* the order the packout screen was opened for (route.params.order.id)
OrderId == 42

\* categories the screen passes to handleTakePhoto
PhotoTypes == {"package", "damage", "compliance"}

\* outcomes of an HTTP request: 2xx, a non-2xx response, no response at all
HttpOutcomes == {"ok", "rejected", "network"}

----------------------------------------------------------------------------
(* AsyncStorage *)

Key(ns, kind, id, ts) == [ns |-> ns, kind |-> kind, id |-> id, ts |-> ts]

PackoutKey(orderId) == Key("packout", "", orderId, 0)

OfflineKey(kind, id, ts) == Key("offline", kind, id, ts)

\* k.startsWith('offline_')
StartsWithOffline(k) == k.ns = "offline"

HasItem(store, k) == k \in DOMAIN store

SetItem(store, k, v) == [x \in DOMAIN store \cup {k} |-> IF x = k THEN v ELSE store[x]]

RemoveItem(store, k) == [x \in DOMAIN store \ {k} |-> store[x]]

MultiRemove(store, ks) == [x \in DOMAIN store \ ks |-> store[x]]

OfflineKeys(store) == {k \in DOMAIN store : StartsWithOffline(k)}

EmptyStorage == [x \in {} |-> 0]

----------------------------------------------------------------------------
(* JSON *)

\* new Date(): a Date object holding the instant t
DateOf(t) == [kind |-> "Date", t |-> t]

\* Date.prototype.toISOString / JSON.stringify of a Date: a string naming the instant
IsoString(t) == [kind |-> "string", t |-> t]

\* JSON.stringify calls toJSON on every Date it meets; strings stay strings
StringifyPhoto(p) ==
    [p EXCEPT !.timestamp = IF p.timestamp.kind = "Date"
                            THEN IsoString(p.timestamp.t)
                            ELSE p.timestamp]

\* JSON.parse(JSON.stringify(progress)): booleans, numbers and strings come back
\* as they were, a Date comes back as the string it was written as
JsonRoundTrip(progress) ==
    [steps       |-> progress.steps,
     photos      |-> [i \in 1..Len(progress.photos) |-> StringifyPhoto(progress.photos[i])],
     currentStep |-> progress.currentStep]

----------------------------------------------------------------------------
(* The packout screen *)

NoUri == 0

InitialSteps ==
    [s \in StepIds |->
        [id             |-> s,
         completed      |-> FALSE,
         photoRequired  |-> TRUE,
         photoTaken     |-> FALSE,
         photoUri       |-> NoUri,
         checklistItems |-> [i \in ItemIds |-> FALSE]]]

\* requests a handler can send
PostComplete == "POST /packout-tasks/complete"
GetHealth == "GET /health"

\* what a call returns when it returns no value (null in the source)
Null == "null"

\* a handler that showed no alert and sent no request
Quiet(op) ==
    [op |-> op, alert |-> "none", http |-> "none", sent |-> <<>>, threw |-> FALSE,
     log |-> {}, requeued |-> FALSE, returned |-> Null, arg |-> 0, auth |-> Null]

\* a handler that showed an alert without sending a request
Alerted(op, alert) ==
    [op |-> op, alert |-> alert, http |-> "none", sent |-> <<>>, threw |-> FALSE,
     log |-> {}, requeued |-> FALSE, returned |-> Null, arg |-> 0, auth |-> Null]

\* a handler that sent one request, with the outcome of the request
Requested(op, alert, request, http) ==
    [op |-> op, alert |-> alert, http |-> http, sent |-> <<request>>, threw |-> FALSE,
     log |-> {}, requeued |-> FALSE, returned |-> Null, arg |-> 0, auth |-> Null]

AllItemsCompleted(step) == \A i \in DOMAIN step.checklistItems : step.checklistItems[i]

\* the toggle deriving completed from the checklist alone
ToggledStepNoPhotoCheck(step, itemId) ==
    LET items == [step.checklistItems EXCEPT ![itemId] = ~@]
        flipped == [step EXCEPT !.checklistItems = items]
    IN  [flipped EXCEPT !.completed = AllItemsCompleted(flipped)]

\* the step object as handleChecklistItemToggle leaves it
ToggledStep(step, itemId) ==
    LET items == [step.checklistItems EXCEPT ![itemId] = ~@]
        flipped == [step EXCEPT !.checklistItems = items]
        allItemsCompleted == AllItemsCompleted(flipped)
        photoCompleted == ~flipped.photoRequired \/ flipped.photoTaken
    IN  [flipped EXCEPT !.completed = allItemsCompleted /\ photoCompleted]

\* the step object as handleCameraCapture leaves it
CapturedStep(step, uri) ==
    LET shot == [step EXCEPT !.photoTaken = TRUE, !.photoUri = uri]
    IN  [shot EXCEPT !.completed = AllItemsCompleted(shot) /\ shot.photoTaken]

\* savePackoutProgress, called from a handler: steps, photos and currentStep are the
\* values its closure holds, which the caller passes
SavePackoutProgress(store, steps, photos, currentStep) ==
    SetItem(store, PackoutKey(OrderId),
            JsonRoundTrip([steps |-> steps, photos |-> photos, currentStep |-> currentStep]))

\* the load restoring the step shown and the photos but not the steps
EnterWorkflowForgetsSteps ==
    /\ mounted' = TRUE
    /\ showCamera' = FALSE
    /\ cameraType' = "package"
    /\ showCompletionModal' = FALSE
    /\ packoutSteps' = InitialSteps
    /\ IF HasItem(storage, PackoutKey(OrderId))
       THEN LET progress == storage[PackoutKey(OrderId)]
            IN  /\ compliancePhotos' = progress.photos
                /\ currentStepIndex' = progress.currentStep
       ELSE /\ compliancePhotos' = <<>>
            /\ currentStepIndex' = 0
    /\ last' = Quiet("enter")
    /\ UNCHANGED <<storage, clock>>
    /\ UNCHANGED <<appVars, scannerVars, pendingLoad>>

\* the component mounts with its useState defaults, then loadPackoutProgress runs
EnterWorkflow ==
    /\ mounted' = TRUE
    /\ showCamera' = FALSE
    /\ cameraType' = "package"
    /\ showCompletionModal' = FALSE
    /\ IF HasItem(storage, PackoutKey(OrderId))
       THEN LET progress == storage[PackoutKey(OrderId)]
            IN  /\ packoutSteps' = progress.steps
                /\ compliancePhotos' = progress.photos
                /\ currentStepIndex' = IF progress.currentStep # 0
                                       THEN progress.currentStep ELSE 0
       ELSE /\ packoutSteps' = InitialSteps
            /\ compliancePhotos' = <<>>
            /\ currentStepIndex' = 0
    /\ last' = Quiet("enter")
    /\ UNCHANGED <<storage, clock>>
    /\ UNCHANGED <<appVars, scannerVars, pendingLoad>>

\* an item id no step has
UnknownItemId == 3

\* step.checklistItems.find(item => item.id === itemId) found an item
HasChecklistItem(step, itemId) == itemId \in DOMAIN step.checklistItems

\* the toggle flipping the item in every step
HandleChecklistItemToggleAllSteps(itemId) ==
    /\ mounted /\ ~showCamera /\ ~showCompletionModal
    /\ LET updatedSteps == [i \in DOMAIN packoutSteps |->
                               IF HasChecklistItem(packoutSteps[i], itemId)
                               THEN ToggledStep(packoutSteps[i], itemId)
                               ELSE packoutSteps[i]]
       IN  /\ packoutSteps' = updatedSteps
           /\ storage' = SavePackoutProgress(storage, updatedSteps,
                                             compliancePhotos, currentStepIndex)
    /\ last' = [Quiet("toggle") EXCEPT !.arg = itemId]
    /\ UNCHANGED <<mounted, compliancePhotos, currentStepIndex, showCamera,
                   cameraType, showCompletionModal, clock>>
    /\ UNCHANGED <<appVars, scannerVars, pendingLoad>>

\* the checklist rows of the step shown call the handler with currentStepIndex
HandleChecklistItemToggle(itemId) ==
    /\ mounted /\ ~showCamera /\ ~showCompletionModal
    /\ LET stepIndex == currentStepIndex
           updatedSteps == [packoutSteps EXCEPT
                               ![stepIndex + 1] = ToggledStep(@, itemId)]
       IN  IF HasChecklistItem(packoutSteps[stepIndex + 1], itemId)
           THEN /\ packoutSteps' = updatedSteps
                \* the closure's packoutSteps holds the same step objects, mutated in place
                /\ storage' = SavePackoutProgress(storage, updatedSteps,
                                                  compliancePhotos, currentStepIndex)
           ELSE UNCHANGED <<packoutSteps, storage>>
    /\ last' = [Quiet("toggle") EXCEPT !.arg = itemId]
    /\ UNCHANGED <<mounted, compliancePhotos, currentStepIndex, showCamera,
                   cameraType, showCompletionModal, clock>>
    /\ UNCHANGED <<appVars, scannerVars, pendingLoad>>

HandleTakePhoto(photoType) ==
    /\ mounted /\ ~showCamera /\ ~showCompletionModal
    /\ cameraType' = photoType
    /\ showCamera' = TRUE
    /\ last' = Quiet("takePhoto")
    /\ UNCHANGED <<storage, mounted, packoutSteps, compliancePhotos, currentStepIndex,
                   showCompletionModal, clock>>
    /\ UNCHANGED <<appVars, scannerVars, pendingLoad>>

\* the close button of the camera modal
CloseCamera ==
    /\ mounted /\ showCamera
    /\ showCamera' = FALSE
    /\ last' = Quiet("closeCamera")
    /\ UNCHANGED <<storage, mounted, packoutSteps, compliancePhotos, currentStepIndex,
                   cameraType, showCompletionModal, clock>>
    /\ UNCHANGED <<appVars, scannerVars, pendingLoad>>

\* the capture button: takePictureAsync writes a new image file, then handleCameraCapture
HandleCameraCapture ==
    /\ mounted /\ showCamera
    /\ clock < MaxClock
    /\ clock' = clock + 1
    /\ LET uri == clock + 1
           updatedSteps == [packoutSteps EXCEPT
                               ![currentStepIndex + 1] = CapturedStep(@, uri)]
           compliancePhoto == [uri |-> uri, type |-> cameraType, notes |-> "",
                               timestamp |-> DateOf(clock + 1)]
       IN  /\ packoutSteps' = updatedSteps
           /\ compliancePhotos' = Append(compliancePhotos, compliancePhoto)
           \* savePackoutProgress reads compliancePhotos of the render that created it
           /\ storage' = SavePackoutProgress(storage, updatedSteps,
                                             compliancePhotos, currentStepIndex)
    /\ showCamera' = FALSE
    /\ last' = Alerted("capture", "PhotoCaptured")
    /\ UNCHANGED <<mounted, currentStepIndex, cameraType, showCompletionModal>>
    /\ UNCHANGED <<appVars, scannerVars, pendingLoad>>

\* handleNextStep without its completeness check
HandleNextStepBlind ==
    /\ mounted /\ ~showCamera /\ ~showCompletionModal
    /\ IF currentStepIndex < Len(packoutSteps) - 1
       THEN /\ currentStepIndex' = currentStepIndex + 1
            /\ storage' = SavePackoutProgress(storage, packoutSteps,
                                              compliancePhotos, currentStepIndex)
            /\ last' = Quiet("next")
            /\ UNCHANGED showCompletionModal
       ELSE /\ showCompletionModal' = TRUE
            /\ last' = Quiet("next")
            /\ UNCHANGED <<currentStepIndex, storage>>
    /\ UNCHANGED <<mounted, packoutSteps, compliancePhotos, showCamera, cameraType, clock>>
    /\ UNCHANGED <<appVars, scannerVars, pendingLoad>>

\* handleNextStep with its last-step test off by one
HandleNextStepOffByOne ==
    /\ mounted /\ ~showCamera /\ ~showCompletionModal
    /\ LET currentStep == packoutSteps[currentStepIndex + 1]
       IN  IF ~currentStep.completed
           THEN /\ last' = Alerted("next", "StepIncomplete")
                /\ UNCHANGED <<currentStepIndex, storage, showCompletionModal>>
           ELSE IF currentStepIndex < Len(packoutSteps) - 2
           THEN /\ currentStepIndex' = currentStepIndex + 1
                /\ storage' = SavePackoutProgress(storage, packoutSteps,
                                                  compliancePhotos, currentStepIndex)
                /\ last' = Quiet("next")
                /\ UNCHANGED showCompletionModal
           ELSE /\ showCompletionModal' = TRUE
                /\ last' = Quiet("next")
                /\ UNCHANGED <<currentStepIndex, storage>>
    /\ UNCHANGED <<mounted, packoutSteps, compliancePhotos, showCamera, cameraType, clock>>
    /\ UNCHANGED <<appVars, scannerVars, pendingLoad>>

HandleNextStep ==
    /\ mounted /\ ~showCamera /\ ~showCompletionModal
    /\ LET currentStep == packoutSteps[currentStepIndex + 1]
       IN  IF ~currentStep.completed
           THEN /\ last' = Alerted("next", "StepIncomplete")
                /\ UNCHANGED <<currentStepIndex, storage, showCompletionModal>>
           ELSE IF currentStepIndex < Len(packoutSteps) - 1
           THEN /\ currentStepIndex' = currentStepIndex + 1
                \* savePackoutProgress reads currentStepIndex of the render that created it
                /\ storage' = SavePackoutProgress(storage, packoutSteps,
                                                  compliancePhotos, currentStepIndex)
                /\ last' = Quiet("next")
                /\ UNCHANGED showCompletionModal
           ELSE /\ showCompletionModal' = TRUE
                /\ last' = Quiet("next")
                /\ UNCHANGED <<currentStepIndex, storage>>
    /\ UNCHANGED <<mounted, packoutSteps, compliancePhotos, showCamera, cameraType, clock>>
    /\ UNCHANGED <<appVars, scannerVars, pendingLoad>>

\* handlePreviousStep refusing to leave a step that is not completed
HandlePreviousStepGuarded ==
    /\ mounted /\ ~showCamera /\ ~showCompletionModal
    /\ IF currentStepIndex > 0 /\ packoutSteps[currentStepIndex + 1].completed
       THEN /\ currentStepIndex' = currentStepIndex - 1
            /\ storage' = SavePackoutProgress(storage, packoutSteps,
                                              compliancePhotos, currentStepIndex)
       ELSE UNCHANGED <<currentStepIndex, storage>>
    /\ last' = Quiet("previous")
    /\ UNCHANGED <<mounted, packoutSteps, compliancePhotos, showCamera, cameraType,
                   showCompletionModal, clock>>
    /\ UNCHANGED <<appVars, scannerVars, pendingLoad>>

\* handlePreviousStep without its test of the index
HandlePreviousStepBelowZero ==
    /\ mounted /\ ~showCamera /\ ~showCompletionModal
    /\ currentStepIndex > -1
    /\ currentStepIndex' = currentStepIndex - 1
    /\ storage' = SavePackoutProgress(storage, packoutSteps,
                                      compliancePhotos, currentStepIndex)
    /\ last' = Quiet("previous")
    /\ UNCHANGED <<mounted, packoutSteps, compliancePhotos, showCamera, cameraType,
                   showCompletionModal, clock>>
    /\ UNCHANGED <<appVars, scannerVars, pendingLoad>>

HandlePreviousStep ==
    /\ mounted /\ ~showCamera /\ ~showCompletionModal
    /\ IF currentStepIndex > 0
       THEN /\ currentStepIndex' = currentStepIndex - 1
            /\ storage' = SavePackoutProgress(storage, packoutSteps,
                                              compliancePhotos, currentStepIndex)
       ELSE UNCHANGED <<currentStepIndex, storage>>
    /\ last' = Quiet("previous")
    /\ UNCHANGED <<mounted, packoutSteps, compliancePhotos, showCamera, cameraType,
                   showCompletionModal, clock>>
    /\ UNCHANGED <<appVars, scannerVars, pendingLoad>>

\* the Review button going back to the first step
ReviewPackoutRewinds ==
    /\ mounted /\ showCompletionModal
    /\ showCompletionModal' = FALSE
    /\ currentStepIndex' = 0
    /\ last' = Quiet("review")
    /\ UNCHANGED <<storage, mounted, packoutSteps, compliancePhotos,
                   showCamera, cameraType, clock>>
    /\ UNCHANGED <<appVars, scannerVars, pendingLoad>>

\* the Review button of the completion modal
ReviewPackout ==
    /\ mounted /\ showCompletionModal
    /\ showCompletionModal' = FALSE
    /\ last' = Quiet("review")
    /\ UNCHANGED <<storage, mounted, packoutSteps, compliancePhotos, currentStepIndex,
                   showCamera, cameraType, clock>>
    /\ UNCHANGED <<appVars, scannerVars, pendingLoad>>

\* a photo loaded from storage holds its timestamp as a string, which has no
\* toISOString method: building the submission throws before any request is sent
CanBuildSubmission(photos) ==
    \A i \in 1..Len(photos) : photos[i].timestamp.kind = "Date"

\* the saved progress removed whatever the request's outcome
AfterPostRemoveAlways(store, outcome) == RemoveItem(store, PackoutKey(OrderId))

\* what handleSubmitPackout does to storage once axios.post has settled
AfterPost(store, outcome) ==
    IF outcome = "ok" THEN RemoveItem(store, PackoutKey(OrderId)) ELSE store

\* Submit leaving the screen open with its steps after the server accepted
HandleSubmitPackoutStaysOpen(outcome) ==
    /\ mounted /\ showCompletionModal
    /\ IF ~CanBuildSubmission(compliancePhotos)
       THEN /\ last' = Alerted("submit", "SubmissionFailed")
            /\ UNCHANGED storage
       ELSE /\ storage' = AfterPost(storage, outcome)
            /\ last' = Requested("submit",
                                 IF outcome = "ok" THEN "Success" ELSE "SubmissionFailed",
                                 PostComplete, outcome)
    /\ showCompletionModal' = FALSE
    /\ UNCHANGED <<mounted, packoutSteps, compliancePhotos, currentStepIndex>>
    /\ UNCHANGED <<showCamera, cameraType, clock>>
    /\ UNCHANGED <<appVars, scannerVars, pendingLoad>>

\* the Submit button of the completion modal.  On success the alert's only button
\* navigates back to the scanner, which closes this screen.
HandleSubmitPackout(outcome) ==
    /\ mounted /\ showCompletionModal
    /\ IF ~CanBuildSubmission(compliancePhotos)
       THEN /\ last' = Alerted("submit", "SubmissionFailed")
            /\ UNCHANGED <<storage, mounted, packoutSteps, compliancePhotos,
                           currentStepIndex>>
       ELSE /\ storage' = AfterPost(storage, outcome)
            /\ IF outcome = "ok"
               THEN /\ last' = Requested("submit", "Success", PostComplete, outcome)
                    /\ mounted' = FALSE
                    /\ packoutSteps' = InitialSteps
                    /\ compliancePhotos' = <<>>
                    /\ currentStepIndex' = 0
               ELSE /\ last' = Requested("submit", "SubmissionFailed", PostComplete, outcome)
                    /\ UNCHANGED <<mounted, packoutSteps, compliancePhotos,
                                   currentStepIndex>>
    /\ showCompletionModal' = FALSE
    /\ UNCHANGED <<showCamera, cameraType, clock>>
    /\ UNCHANGED <<appVars, scannerVars, pendingLoad>>

----------------------------------------------------------------------------
(* Specification of the packout screen *)

NoCode == <<>>

NoOrder == [id |-> 0, order_number |-> <<>>, status |-> "none", priority |-> "none"]

\* the App component past its start-up, showing the main screens
AppIdle ==
    /\ isAuthenticated = "yes"
    /\ isLoading = FALSE
    /\ bootPc = "done"
    /\ bootEvents = {}

\* no loadPackoutProgress is waiting for the answer of its getItem
NoLoad == [pending |-> FALSE, found |-> FALSE,
           progress |-> [steps |-> <<>>, photos |-> <<>>, currentStep |-> 0]]

\* the scanner screen with its useState defaults
ScannerIdle ==
    /\ scanning = TRUE
    /\ loading = FALSE
    /\ scannedData = NoCode
    /\ orderData = NoOrder
    /\ showOrderModal = FALSE

Init ==
    /\ storage = EmptyStorage
    /\ mounted = FALSE
    /\ pendingLoad = NoLoad
    /\ packoutSteps = InitialSteps
    /\ compliancePhotos = <<>>
    /\ currentStepIndex = 0
    /\ showCamera = FALSE
    /\ cameraType = "package"
    /\ showCompletionModal = FALSE
    /\ clock = 0
    /\ AppIdle
    /\ ScannerIdle
    /\ last = Quiet("init")

Next ==
    \/ EnterWorkflow
    \/ \E itemId \in ItemIds \cup {UnknownItemId} : HandleChecklistItemToggle(itemId)
    \/ \E photoType \in PhotoTypes : HandleTakePhoto(photoType)
    \/ CloseCamera
    \/ HandleCameraCapture
    \/ HandleNextStep
    \/ HandlePreviousStep
    \/ ReviewPackout
    \/ \E outcome \in HttpOutcomes : HandleSubmitPackout(outcome)

Spec == Init /\ [][Next]_vars

----------------------------------------------------------------------------
(* The API service layer: apiClient, tokenManager, offlineStorage, networkUtils *)

\* outcomes of a request sent through apiClient: HttpOutcomes, a 401 told apart
ApiOutcomes == HttpOutcomes \cup {"unauthorized"}

TokenKey(name) == Key(name, "", 0, 0)

\* what tokenManager.storeTokens wrote at login, the username included
LoggedInStorage ==
    [k \in {TokenKey("access_token"), TokenKey("token_type"),
            TokenKey("token_expires_in"), TokenKey("username")} |-> k.ns]

\* the response interceptor of apiClient: a 401 removes three of the token keys
ResponseInterceptor(store, outcome) ==
    IF outcome = "unauthorized"
    THEN MultiRemove(store, {TokenKey("access_token"), TokenKey("token_type"),
                             TokenKey("username")})
    ELSE store

\* tokenManager.clearTokens
ClearTokens(store) ==
    MultiRemove(store, {TokenKey("access_token"), TokenKey("token_type"),
                        TokenKey("username"), TokenKey("token_expires_in")})

\* storeOfflineData keeping the value of a key that is already stored
StoreOfflineDataKeepFirst(store, key, data, now) ==
    IF HasItem(store, key) THEN store
    ELSE SetItem(store, key, [data |-> data, timestamp |-> IsoString(now)])

\* offlineStorage.storeOfflineData(key, data) at the instant now
StoreOfflineData(store, key, data, now) ==
    SetItem(store, key, [data |-> data, timestamp |-> IsoString(now)])

\* offlineStorage.clearOfflineData() called without a key
ClearOfflineData(store) ==
    LET offlineKeys == OfflineKeys(store)
    IN  IF Cardinality(offlineKeys) > 0 THEN MultiRemove(store, offlineKeys) ELSE store

\* offlineStorage.syncOfflineData: the keys it reads and logs; it sends nothing
\* and removes nothing
SyncOfflineData(store) == {k \in OfflineKeys(store) : HasItem(store, k)}

\* a request interceptor that attaches no Authorization header
RequestInterceptorNoHeader(store) == Null

\* the request interceptor of apiClient: the token of `Authorization: Bearer
\* <token>` it attaches, read from storage when the request is dispatched;
\* Null when no header is attached
RequestInterceptor(store) ==
    IF HasItem(store, TokenKey("access_token")) /\ store[TokenKey("access_token")] # ""
    THEN store[TokenKey("access_token")]
    ELSE Null

\* a request sent through apiClient; auth is what the request interceptor
\* attached to it
ApiRequested(op, request, http, threw, log) ==
    [op |-> op, alert |-> "none", http |-> http, sent |-> <<request>>, threw |-> threw,
     log |-> log, requeued |-> FALSE, returned |-> Null, arg |-> 0,
     auth |-> RequestInterceptor(storage)]

\* a mutating request that failed: its data was stored under key and the error
\* rethrown; requeued tells that the key was already in storage
Enqueued(op, request, http, store, key) ==
    [op |-> op, alert |-> "none", http |-> http, sent |-> <<request>>, threw |-> TRUE,
     log |-> {}, requeued |-> HasItem(store, key),
     returned |-> Null, arg |-> 0,
     auth |-> RequestInterceptor(storage)]

\* the device clock advances
Tick ==
    /\ clock < MaxClock
    /\ clock' = clock + 1
    /\ last' = Quiet("tick")
    /\ UNCHANGED <<storage, screenVars>>
    /\ UNCHANGED <<appVars, scannerVars, pendingLoad>>

\* packoutTasksAPI.completeTask(taskData) with taskData.order_id = OrderId
CompleteTask(outcome) ==
    /\ IF outcome = "ok"
       THEN /\ storage' = storage
            /\ last' = ApiRequested("completeTask", PostComplete, outcome, FALSE, {})
       ELSE /\ storage' = StoreOfflineData(
                              ResponseInterceptor(storage, outcome),
                              OfflineKey("complete_task", OrderId, clock),
                              [order_id |-> OrderId, offline_timestamp |-> IsoString(clock)],
                              clock)
            /\ last' = Enqueued("completeTask", PostComplete, outcome, storage,
                                OfflineKey("complete_task", OrderId, clock))
    /\ UNCHANGED <<screenVars, clock>>
    /\ UNCHANGED <<appVars, scannerVars, pendingLoad>>

\* packoutTasksAPI.updateTask(taskId, updateData)
UpdateTask(taskId, outcome) ==
    /\ IF outcome = "ok"
       THEN /\ storage' = storage
            /\ last' = ApiRequested("updateTask", "PATCH /packout-tasks", outcome, FALSE, {})
       ELSE /\ storage' = StoreOfflineData(
                              ResponseInterceptor(storage, outcome),
                              OfflineKey("update_task", taskId, 0),
                              [taskId |-> taskId, timestamp |-> IsoString(clock)],
                              clock)
            /\ last' = Enqueued("updateTask", "PATCH /packout-tasks", outcome, storage,
                                OfflineKey("update_task", taskId, 0))
    /\ UNCHANGED <<screenVars, clock>>
    /\ UNCHANGED <<appVars, scannerVars, pendingLoad>>

\* networkUtils.checkConnectivity: the probe answered 200
CheckConnectivity(outcome) == outcome = "ok"

\* networkUtils.syncPendingData: the probe, then syncOfflineData when connected
SyncPendingData(outcome) ==
    /\ storage' = ResponseInterceptor(storage, outcome)
    /\ last' = ApiRequested("sync", GetHealth, outcome, FALSE,
                            IF CheckConnectivity(outcome)
                            THEN SyncOfflineData(storage) ELSE {})
    /\ UNCHANGED <<screenVars, clock>>
    /\ UNCHANGED <<appVars, scannerVars, pendingLoad>>

\* authAPI.logout
Logout ==
    /\ storage' = ClearOfflineData(ClearTokens(storage))
    /\ last' = Quiet("logout")
    /\ UNCHANGED <<screenVars, clock>>
    /\ UNCHANGED <<appVars, scannerVars, pendingLoad>>

TaskIds == {1}

InitSync ==
    /\ storage = LoggedInStorage
    /\ mounted = FALSE
    /\ pendingLoad = NoLoad
    /\ packoutSteps = InitialSteps
    /\ compliancePhotos = <<>>
    /\ currentStepIndex = 0
    /\ showCamera = FALSE
    /\ cameraType = "package"
    /\ showCompletionModal = FALSE
    /\ clock = 0
    /\ AppIdle
    /\ ScannerIdle
    /\ last = Quiet("init")

NextSync ==
    \/ Tick
    \/ \E outcome \in ApiOutcomes : CompleteTask(outcome)
    \/ \E taskId \in TaskIds, outcome \in ApiOutcomes : UpdateTask(taskId, outcome)
    \/ \E outcome \in ApiOutcomes : SyncPendingData(outcome)
    \/ Logout

SpecSync == InitSync /\ [][NextSync]_vars

\* the drain keeps being run with the probe answering 200
SpecSyncFair == SpecSync /\ WF_vars(SyncPendingData("ok"))

----------------------------------------------------------------------------
(* Properties of the packout screen *)

\* the PackoutSession held in memory
Session == <<packoutSteps, compliancePhotos, currentStepIndex>>

\* the step's completed flag is what its checklist and photo state derive
CompletedIsDerived(step) ==
    step.completed <=> (AllItemsCompleted(step) /\ (step.photoRequired => step.photoTaken))

\* C1: in every reachable state every step has completed = TRUE exactly when all of
\* its checklist items are completed and (photoRequired implies photoTaken).
C1_CompletedIsDerived ==
    \A s \in DOMAIN packoutSteps : CompletedIsDerived(packoutSteps[s])

\* C1 witness: after a toggle, one step is completed while another has its photo
\* taken and is incomplete because of an unchecked item.
C1_Witness ==
    /\ last.op = "toggle"
    /\ \E s \in DOMAIN packoutSteps : packoutSteps[s].completed
    /\ \E s \in DOMAIN packoutSteps :
          packoutSteps[s].photoTaken /\ ~packoutSteps[s].completed

\* the step taken is a call of handleNextStep
IsAdvance == last'.op = "next"

CurrentStep == packoutSteps[currentStepIndex + 1]

\* C2: advance() on an incomplete current step reports StepIncomplete and leaves
\* currentStepIndex, the steps, the compliance photos and the AllStepsComplete
\* flag as they were, at every index and however often it is repeated.
C2_AdvanceIncompleteIsNoOp ==
    [][(IsAdvance /\ ~CurrentStep.completed)
          => /\ last'.alert = "StepIncomplete"
             /\ UNCHANGED <<currentStepIndex, packoutSteps, compliancePhotos,
                            showCompletionModal, storage>>]_vars

\* C2 witness: advance() was refused on an incomplete step past the first one.
C2_Witness ==
    /\ last.op = "next" /\ last.alert = "StepIncomplete"
    /\ currentStepIndex > 0
    /\ ~CurrentStep.completed

\* C3: advance() on a completed current step moves to the next index when the step
\* is not the last, and on the last step enters AllStepsComplete with the index
\* left at steps.length - 1; on an incomplete last step it reports StepIncomplete
\* and the index stays.
C3_AdvanceCompleted ==
    [][IsAdvance =>
        IF ~CurrentStep.completed
        THEN last'.alert = "StepIncomplete" /\ currentStepIndex' = currentStepIndex
        ELSE IF currentStepIndex # Len(packoutSteps) - 1
        THEN /\ currentStepIndex' = currentStepIndex + 1
             /\ showCompletionModal' = FALSE
             /\ last'.alert = "none"
        ELSE /\ showCompletionModal' = TRUE
             /\ currentStepIndex' = Len(packoutSteps) - 1
             /\ last'.alert = "none"]_vars

\* C3 witness: AllStepsComplete was entered by advance() at the last index, every
\* step being completed.
C3_Witness ==
    /\ last.op = "next"
    /\ showCompletionModal
    /\ currentStepIndex = NumSteps - 1
    /\ \A s \in DOMAIN packoutSteps : packoutSteps[s].completed

\* the saved progress is the JSON form of the session in memory
StoredIsSession(store, steps, photos, index) ==
    /\ HasItem(store, PackoutKey(OrderId))
    /\ store[PackoutKey(OrderId)] =
          JsonRoundTrip([steps |-> steps, photos |-> photos, currentStep |-> index])

\* C4 (as claimed): after a toggle, a capture, an advance or a retreat that changed
\* the session, the progress stored under packout_<orderId> is the session as it
\* is after the operation, the photo just recorded and the index just changed
\* included.
C4_StoredEqualsMemory ==
    [][(last'.op \in {"toggle", "capture", "next", "previous"} /\ Session' # Session)
          => StoredIsSession(storage', packoutSteps', compliancePhotos',
                             currentStepIndex')]_vars

\* C5 (as claimed): re-entering the workflow of an open session, with no mutation
\* in between, loads the session that existed before: same steps, same compliance
\* photos with their capture times, same currentStepIndex.
C5_ResumeIsLossless ==
    [][(mounted /\ last'.op = "enter") => Session' = Session]_vars

\* C6 (as claimed): a submit() that is not delivered adds exactly one envelope to
\* the offline queue, leaves the saved progress in place and unchanged, and tells
\* the caller that the submission was saved locally.
C6_FailedSubmitEnqueues ==
    [][(last'.op = "submit" /\ last'.http \in {"rejected", "network"})
          => /\ Cardinality(OfflineKeys(storage')) = Cardinality(OfflineKeys(storage)) + 1
             /\ HasItem(storage', PackoutKey(OrderId))
             /\ storage'[PackoutKey(OrderId)] = storage[PackoutKey(OrderId)]
             /\ last'.alert = "SubmissionFailed"]_vars

\* C7: a submit() the server accepts removes the saved progress and signals
\* completion; the saved progress is removed by no step other than a submit()
\* whose request returned success, and a submit() that was not delivered leaves
\* storage as it was.
C7_RemovedOnlyAfterSuccess ==
    [][/\ (last'.op = "submit" /\ last'.http = "ok")
            => (~HasItem(storage', PackoutKey(OrderId)) /\ last'.alert = "Success")
       /\ (last'.op = "submit" /\ last'.http # "ok")
            => (storage' = storage /\ last'.alert = "SubmissionFailed")
       /\ (HasItem(storage, PackoutKey(OrderId)) /\ ~HasItem(storage', PackoutKey(OrderId)))
            => (last'.op = "submit" /\ last'.http = "ok"
                /\ last'.sent = <<PostComplete>>)]_vars

\* C7 witness: a submit() was accepted and the saved progress is gone.
C7_Witness ==
    /\ last.op = "submit" /\ last.http = "ok" /\ last.alert = "Success"
    /\ ~HasItem(storage, PackoutKey(OrderId))

----------------------------------------------------------------------------
(* Properties of the offline queue *)

\* the requests of an operation that replay a queued envelope
Replays(l) == SelectSeq(l.sent, LAMBDA r : r # GetHealth)

\* the envelopes of failed completions of the order
CompletionEnvelopes(store) ==
    {k \in OfflineKeys(store) : k.kind = "complete_task" /\ k.id = OrderId}

\* C8 (as claimed): a drain run that finds envelopes queued submits them, oldest
\* first, up to the first one whose submit fails.
C8_DrainSubmitsOldestFirst ==
    (last.op = "sync" /\ last.http = "ok" /\ OfflineKeys(storage) # {})
        => Len(Replays(last)) >= 1

\* C9 (as claimed): after a drain run with the server reachable and accepting, no
\* envelope of a failed completion of order 42 remains in storage.
C9_DrainRemovesDelivered ==
    (last.op = "sync" /\ last.http = "ok") => CompletionEnvelopes(storage) = {}

\* C10 (as claimed): an envelope leaves the queue only in a step that replayed it
\* successfully; logout and clearing offline data remove no envelope.
C10_RemovedOnlyAfterReplay ==
    [][(\E k \in OfflineKeys(storage) : ~HasItem(storage', k))
          => (last'.op = "sync" /\ last'.http = "ok" /\ Len(Replays(last')) >= 1)]_vars

\* the keys under which failed completions of the order can be queued
CompletionKeys == {OfflineKey("complete_task", OrderId, t) : t \in 0..MaxClock}

\* C11 (as claimed): while the drain keeps being run with the probe succeeding,
\* every queued envelope is eventually deleted from the queue.
C11_EveryEnvelopeDelivered ==
    \A k \in CompletionKeys : HasItem(storage, k) ~> ~HasItem(storage, k)

\* the step taken is a mutating call that failed and stored its data offline
IsEnqueue == last'.op \in {"completeTask", "updateTask"} /\ last'.threw

\* C12: storing offline data leaves exactly one envelope under the key written,
\* holding the data of this call (also when the key was already queued), and
\* leaves the envelopes under every other key as they were.
C12_EnqueueOverwrites ==
    [][IsEnqueue =>
        \E k \in OfflineKeys(storage') :
            /\ k.kind = (IF last'.op = "completeTask" THEN "complete_task" ELSE "update_task")
            /\ storage'[k].timestamp = IsoString(clock)
            /\ (k.kind = "update_task" => storage'[k].data.timestamp = IsoString(clock))
            /\ (k.kind = "complete_task"
                   => storage'[k].data.offline_timestamp = IsoString(clock))
            /\ last'.requeued = HasItem(storage, k)
            /\ OfflineKeys(storage') = OfflineKeys(storage) \cup {k}
            /\ \A j \in OfflineKeys(storage) \ {k} : storage'[j] = storage[j]]_vars

\* C12 witness: a key that was already queued was written again and holds the
\* data of the last call, next to an envelope under another key.
C12_Witness ==
    /\ last.op = "updateTask" /\ last.requeued
    /\ clock > 0
    /\ \E k \in OfflineKeys(storage) :
          k.kind = "update_task" /\ storage[k].data.timestamp = IsoString(clock)
    /\ CompletionEnvelopes(storage) # {}

----------------------------------------------------------------------------
(* The session store (tokenManager), authAPI and the start of the App *)

Tokens == {"tokenA", "tokenB"}

Username == "worker"

PostLogin == "POST /auth/login"
GetMe == "GET /auth/me"

\* the body of a successful login response
TokenData(tok) == [access_token |-> tok, token_type |-> "bearer", expires_in |-> "3600"]

\* tokenManager.storeTokens(tokenData, username): one multiSet
StoreTokens(store, tokenData, username) ==
    LET base == SetItem(SetItem(SetItem(store,
                    TokenKey("access_token"), tokenData.access_token),
                    TokenKey("token_type"), tokenData.token_type),
                    TokenKey("token_expires_in"), tokenData.expires_in)
    IN  IF username # "" THEN SetItem(base, TokenKey("username"), username) ELSE base

\* tokenManager.getToken
GetToken(store) ==
    IF HasItem(store, TokenKey("access_token"))
    THEN store[TokenKey("access_token")] ELSE Null

\* isAuthenticated reading the stored lifetime instead of the access token
IsAuthenticatedByLifetime(store) ==
    /\ HasItem(store, TokenKey("token_expires_in"))
    /\ store[TokenKey("token_expires_in")] # ""

\* tokenManager.isAuthenticated: !!token
IsAuthenticated(store) ==
    /\ HasItem(store, TokenKey("access_token"))
    /\ store[TokenKey("access_token")] # ""

\* what the App renders
LoadingShown == isLoading
MainShown == ~isLoading /\ isAuthenticated = "yes"
AuthShown == ~isLoading /\ isAuthenticated # "yes"

\* login clearing the stored tokens when the request fails
LoginDropsSessionOnFailure(tok, outcome) ==
    /\ AuthShown
    /\ IF outcome = "ok"
       THEN /\ storage' = StoreTokens(storage, TokenData(tok), Username)
            /\ last' = [ApiRequested("login", PostLogin, outcome, FALSE, {})
                            EXCEPT !.returned = tok]
       ELSE /\ storage' = ClearTokens(storage)
            /\ last' = ApiRequested("login", PostLogin, outcome, TRUE, {})
    /\ UNCHANGED <<screenVars, clock, appVars, scannerVars, pendingLoad>>

\* authAPI.login(credentials), called from the login screen; the server
\* answers with the token tok or the request fails
Login(tok, outcome) ==
    /\ AuthShown
    /\ IF outcome = "ok"
       THEN /\ storage' = StoreTokens(storage, TokenData(tok), Username)
            /\ last' = [ApiRequested("login", PostLogin, outcome, FALSE, {})
                            EXCEPT !.returned = tok]
       ELSE /\ storage' = ResponseInterceptor(storage, outcome)
            /\ last' = ApiRequested("login", PostLogin, outcome, TRUE, {})
    /\ UNCHANGED <<screenVars, clock, appVars, scannerVars, pendingLoad>>

\* App.handleAuthStateChange(authenticated)
HandleAuthStateChange(authenticated) ==
    /\ ~isLoading
    /\ isAuthenticated' = (IF authenticated THEN "yes" ELSE "no")
    /\ last' = Quiet("handleAuthStateChange")
    /\ UNCHANGED <<storage, screenVars, clock, isLoading, bootPc, bootEvents>>
    /\ UNCHANGED <<scannerVars, pendingLoad>>

\* App.handleLogout
HandleLogout ==
    /\ MainShown
    /\ storage' = ClearOfflineData(ClearTokens(storage))
    /\ isAuthenticated' = "no"
    /\ last' = Quiet("handleLogout")
    /\ UNCHANGED <<screenVars, clock, isLoading, bootPc, bootEvents, scannerVars, pendingLoad>>

\* the process is started again: the App component mounts with its useState
\* defaults and its effect calls initializeApp
Restart ==
    /\ bootPc # "isAuthenticated"
    /\ isAuthenticated' = "unknown"
    /\ isLoading' = TRUE
    /\ bootPc' = "isAuthenticated"
    /\ bootEvents' = {}
    /\ last' = Quiet("restart")
    /\ UNCHANGED <<storage, screenVars, clock, scannerVars, pendingLoad>>

\* initializeApp up to the answer of tokenManager.isAuthenticated()
InitializeAppIsAuthenticated ==
    /\ bootPc = "isAuthenticated"
    /\ IF IsAuthenticated(storage)
       THEN /\ bootPc' = "getCurrentUser"
            /\ bootEvents' = bootEvents
            /\ UNCHANGED <<isAuthenticated, isLoading>>
       ELSE /\ isAuthenticated' = "no"
            /\ isLoading' = FALSE
            /\ bootPc' = "done"
            /\ bootEvents' = bootEvents \cup {"noCredential"}
    /\ last' = Quiet("isAuthenticated")
    /\ UNCHANGED <<storage, screenVars, clock, scannerVars, pendingLoad>>

\* initializeApp trusting the stored token when the validation request fails
InitializeAppGetCurrentUserTrusting(outcome) ==
    /\ bootPc = "getCurrentUser"
    /\ storage' = ResponseInterceptor(storage, outcome)
    /\ isAuthenticated' = "yes"
    /\ bootPc' = "checkConnectivity"
    /\ bootEvents' = bootEvents \cup {IF outcome = "ok" THEN "validated" ELSE "validationFailed"}
    /\ last' = ApiRequested("getCurrentUser", GetMe, outcome, outcome # "ok", {})
    /\ UNCHANGED <<isLoading, screenVars, clock, scannerVars, pendingLoad>>

\* initializeApp from the answer of authAPI.getCurrentUser() to the next await
InitializeAppGetCurrentUser(outcome) ==
    /\ bootPc = "getCurrentUser"
    /\ IF outcome = "ok"
       THEN /\ storage' = storage
            /\ isAuthenticated' = "yes"
            /\ isLoading' = isLoading
            /\ bootPc' = "checkConnectivity"
            /\ bootEvents' = bootEvents \cup {"validated"}
       ELSE /\ storage' = ClearTokens(ResponseInterceptor(storage, outcome))
            /\ isAuthenticated' = "no"
            /\ isLoading' = FALSE
            /\ bootPc' = "done"
            /\ bootEvents' = bootEvents \cup {"validationFailed"}
    /\ last' = ApiRequested("getCurrentUser", GetMe, outcome, outcome # "ok", {})
    /\ UNCHANGED <<screenVars, clock, scannerVars, pendingLoad>>

\* initializeApp starting the drain whatever the probe answered
InitializeAppCheckConnectivityIgnored(outcome) ==
    /\ bootPc = "checkConnectivity"
    /\ storage' = ResponseInterceptor(storage, outcome)
    /\ bootPc' = "syncPendingData"
    /\ bootEvents' = bootEvents \cup {IF CheckConnectivity(outcome)
                                      THEN "reachable" ELSE "unreachable"}
    /\ last' = ApiRequested("checkConnectivity", GetHealth, outcome, FALSE, {})
    /\ UNCHANGED <<isAuthenticated, isLoading, screenVars, clock, scannerVars, pendingLoad>>

\* initializeApp from the answer of networkUtils.checkConnectivity()
InitializeAppCheckConnectivity(outcome) ==
    /\ bootPc = "checkConnectivity"
    /\ storage' = ResponseInterceptor(storage, outcome)
    /\ IF CheckConnectivity(outcome)
       THEN /\ bootPc' = "syncPendingData"
            /\ bootEvents' = bootEvents \cup {"reachable"}
            /\ isLoading' = isLoading
       ELSE /\ bootPc' = "done"
            /\ bootEvents' = bootEvents \cup {"unreachable"}
            /\ isLoading' = FALSE
    /\ last' = ApiRequested("checkConnectivity", GetHealth, outcome, FALSE, {})
    /\ UNCHANGED <<isAuthenticated, screenVars, clock, scannerVars, pendingLoad>>

\* initializeApp from the return of networkUtils.syncPendingData(), which
\* probes again and runs syncOfflineData when connected, to its finally block
InitializeAppSyncPendingData(outcome) ==
    /\ bootPc = "syncPendingData"
    /\ storage' = ResponseInterceptor(storage, outcome)
    /\ bootEvents' = bootEvents \cup {IF CheckConnectivity(outcome)
                                      THEN "drained" ELSE "probeFailed"}
    /\ isLoading' = FALSE
    /\ bootPc' = "done"
    /\ last' = ApiRequested("syncPendingData", GetHealth, outcome, FALSE,
                            IF CheckConnectivity(outcome)
                            THEN SyncOfflineData(storage) ELSE {})
    /\ UNCHANGED <<isAuthenticated, screenVars, clock, scannerVars, pendingLoad>>

\* the app is started for the first time on a device with empty storage
InitApp ==
    /\ storage = EmptyStorage
    /\ mounted = FALSE
    /\ pendingLoad = NoLoad
    /\ packoutSteps = InitialSteps
    /\ compliancePhotos = <<>>
    /\ currentStepIndex = 0
    /\ showCamera = FALSE
    /\ cameraType = "package"
    /\ showCompletionModal = FALSE
    /\ clock = 0
    /\ isAuthenticated = "unknown"
    /\ isLoading = TRUE
    /\ bootPc = "isAuthenticated"
    /\ bootEvents = {}
    /\ ScannerIdle
    /\ last = Quiet("init")

\* a task completion sent from the main screens
MainCompleteTask(outcome) == MainShown /\ CompleteTask(outcome)

NextApp ==
    \/ Restart
    \/ InitializeAppIsAuthenticated
    \/ \E outcome \in ApiOutcomes : InitializeAppGetCurrentUser(outcome)
    \/ \E outcome \in ApiOutcomes : InitializeAppCheckConnectivity(outcome)
    \/ \E outcome \in ApiOutcomes : InitializeAppSyncPendingData(outcome)
    \/ \E tok \in Tokens, outcome \in ApiOutcomes : Login(tok, outcome)
    \/ \E authenticated \in BOOLEAN : HandleAuthStateChange(authenticated)
    \/ HandleLogout
    \/ \E outcome \in ApiOutcomes : MainCompleteTask(outcome)

SpecApp == InitApp /\ [][NextApp]_vars

\* authAPI.login when the multiSet of storeTokens rejects: storeTokens logs
\* and rethrows, login logs and rethrows
LoginStoreTokensFails(tok) ==
    /\ AuthShown
    /\ storage' = storage
    /\ last' = ApiRequested("storeTokensFailed", PostLogin, "ok", TRUE, {})
    /\ UNCHANGED <<screenVars, clock, appVars, scannerVars, pendingLoad>>

\* App.handleLogout when the multiRemove of clearTokens rejects: clearTokens
\* logs and returns, clearOfflineData runs
HandleLogoutClearTokensFails ==
    /\ MainShown
    /\ storage' = ClearOfflineData(storage)
    /\ isAuthenticated' = "no"
    /\ last' = Quiet("clearTokensFailed")
    /\ UNCHANGED <<screenVars, clock, isLoading, bootPc, bootEvents, scannerVars, pendingLoad>>

\* initializeApp when the getItem of tokenManager.isAuthenticated rejects:
\* isAuthenticated answers false
InitializeAppIsAuthenticatedFails ==
    /\ bootPc = "isAuthenticated"
    /\ isAuthenticated' = "no"
    /\ isLoading' = FALSE
    /\ bootPc' = "done"
    /\ bootEvents' = bootEvents \cup {"noCredential"}
    /\ last' = Quiet("isAuthenticatedFailed")
    /\ UNCHANGED <<storage, screenVars, clock, scannerVars, pendingLoad>>

NextAppFaulty ==
    \/ Restart
    \/ InitializeAppIsAuthenticated
    \/ \E outcome \in ApiOutcomes : InitializeAppGetCurrentUser(outcome)
    \/ \E outcome \in ApiOutcomes : InitializeAppCheckConnectivity(outcome)
    \/ \E outcome \in ApiOutcomes : InitializeAppSyncPendingData(outcome)
    \/ \E tok \in Tokens, outcome \in ApiOutcomes : Login(tok, outcome)
    \/ \E authenticated \in BOOLEAN : HandleAuthStateChange(authenticated)
    \/ HandleLogout
    \/ \E outcome \in ApiOutcomes : MainCompleteTask(outcome)
    \/ \E tok \in Tokens : LoginStoreTokensFails(tok)
    \/ HandleLogoutClearTokensFails
    \/ InitializeAppIsAuthenticatedFails

\* the App on a device whose AsyncStorage calls can reject
SpecAppFaulty == InitApp /\ [][NextAppFaulty]_vars

----------------------------------------------------------------------------
(* Properties of the session store and of the start of the App *)

\* the steps that clear the session: App.handleLogout and the failed
\* validation of initializeApp
IsClear ==
    \/ last'.op = "handleLogout"
    \/ last'.op = "getCurrentUser" /\ last'.threw

\* C13: in every reachable state isAuthenticated() is true exactly when
\* getToken() returns a token; after a login stored the token the server
\* returned, getToken() returns that token; after clearTokens() getToken()
\* returns null and isAuthenticated() is false.
C13_SessionStoreAgrees ==
    /\ [](IsAuthenticated(storage) <=> GetToken(storage) # Null)
    /\ [][/\ (last'.op = "login" /\ ~last'.threw) =>
                 (GetToken(storage') = last'.returned /\ last'.returned \in Tokens)
          /\ IsClear =>
                 (GetToken(storage') = Null /\ ~IsAuthenticated(storage'))]_vars

\* a login has replaced the stored token by another one
C13_Witness ==
    /\ last.op = "login" /\ ~last.threw
    /\ last.returned = "tokenB"
    /\ GetToken(storage) = "tokenB"
    /\ IsAuthenticated(storage)

\* C14 as stated: when login() returns, the token the server returned is
\* stored; when the login request fails, storage is what it was before.
C14_LoginWritesThrough ==
    [][last'.op = "login" =>
          IF last'.threw THEN storage' = storage
          ELSE GetToken(storage') = last'.returned]_vars

\* C14 amended: when login() returns, the token the server returned is stored;
\* when the login request fails without a 401 answer, storage is what it was
\* before; when it fails with a 401, the response interceptor has removed the
\* access token, so that nobody is authenticated, and the rest of storage but
\* the token type and the username is what it was.
C14_LoginWritesThroughBut401 ==
    [][last'.op = "login" =>
          CASE ~last'.threw ->
                   /\ GetToken(storage') = last'.returned
                   /\ IsAuthenticated(storage')
            [] last'.threw /\ last'.http # "unauthorized" ->
                   storage' = storage
            [] last'.threw /\ last'.http = "unauthorized" ->
                   /\ ~IsAuthenticated(storage')
                   /\ \A k \in DOMAIN storage :
                          k.ns \notin {"access_token", "token_type", "username"} =>
                              HasItem(storage', k) /\ storage'[k] = storage[k]]_vars

\* a login request failed on the network while a session was stored
C14_Witness ==
    /\ last.op = "login" /\ last.threw /\ last.http = "network"
    /\ GetToken(storage) \in Tokens

\* C15: a rejected AsyncStorage call inside storeTokens, clearTokens or
\* isAuthenticated is not propagated to the caller, and afterwards nobody is
\* authenticated.
C15_FailClosed ==
    [][/\ (last'.op \in {"storeTokensFailed", "clearTokensFailed"}) =>
              (~last'.threw /\ ~IsAuthenticated(storage'))
       /\ (last'.op = "isAuthenticatedFailed") =>
              (~last'.threw /\ isAuthenticated' = "no")]_vars

\* C16: while the App starts it holds isAuthenticated = true only after
\* getCurrentUser() succeeded during this start; when no token is stored or
\* getCurrentUser() fails the start ends with isAuthenticated = false, and
\* after a failed getCurrentUser() no token is stored.
C16_StartValidates ==
    [][(bootPc # "done") =>
          /\ (isAuthenticated' = "yes") => ("validated" \in bootEvents')
          /\ ("validated" \in bootEvents' /\ "validated" \notin bootEvents) =>
                 (last'.op = "getCurrentUser" /\ last'.http = "ok")
          /\ (bootPc' = "done" /\ bootEvents' \cap {"noCredential", "validationFailed"} # {}) =>
                 (isAuthenticated' = "no")
          /\ (last'.op = "getCurrentUser" /\ last'.http # "ok") =>
                 /\ "validationFailed" \in bootEvents'
                 /\ bootPc' = "done"
                 /\ GetToken(storage') = Null
          /\ (last'.op = "isAuthenticated" /\ ~IsAuthenticated(storage)) =>
                 ("noCredential" \in bootEvents' /\ bootPc' = "done")]_vars

\* a start with a stored token ended in the main screens
C16_Witness ==
    /\ bootPc = "done"
    /\ isAuthenticated = "yes"
    /\ "validated" \in bootEvents
    /\ ~isLoading

\* C18: during the start of the App the drain has run only if getCurrentUser()
\* succeeded and checkConnectivity() answered true before; when
\* getCurrentUser() failed or checkConnectivity() answered false, the start
\* ends without a drain.
C18_DrainAfterValidationAndProbe ==
    /\ ("drained" \in bootEvents) => ({"validated", "reachable"} \subseteq bootEvents)
    /\ (bootEvents \cap {"noCredential", "validationFailed", "unreachable"} # {}) =>
           /\ "drained" \notin bootEvents
           /\ bootPc = "done"
    /\ (last.op \in {"isAuthenticated", "getCurrentUser", "checkConnectivity"}) =>
           (last.log = {})
    /\ (last.op = "syncPendingData" /\ last.log # {}) => ("drained" \in bootEvents)

\* a start drained a queue that held a completion
C18_Witness ==
    /\ "drained" \in bootEvents
    /\ last.op = "syncPendingData"
    /\ last.log # {}
    /\ bootPc = "done"

\* C19: once getCurrentUser() has succeeded the App is out of its loading
\* state, also while the probe or the drain is still running.
C19_ProbeAndDrainDoNotBlock ==
    (bootPc \in {"checkConnectivity", "syncPendingData"}) => ~isLoading

----------------------------------------------------------------------------
(* The scanner screen *)

\* scanned codes, as sequences of characters; the first two end alike, the
\* third has six characters and the last one fewer
Codes == {<<"A", "0", "0", "0", "1", "2", "3">>,
          <<"B", "0", "0", "0", "1", "2", "3">>,
          <<"4", "5", "6", "7", "8", "9">>,
          <<"X", "7">>}

GetByBarcode == "GET /orders/by-barcode"

\* String.prototype.slice(-n): the last n characters, the whole string when it
\* is shorter
SliceLast(str, n) ==
    LET start == IF Len(str) - n > 0 THEN Len(str) - n ELSE 0
    IN  SubSeq(str, start + 1, Len(str))

\* orders the server can answer with
ServerOrders ==
    {[id |-> OrderId, order_number |-> <<"O", "R", "D", "-", "4", "2">>,
      status |-> "pending", priority |-> "high"],
     [id |-> 1, order_number |-> <<"O", "R", "D", "-", "0", "0", "0", "1", "2", "3">>,
      status |-> "pending", priority |-> "normal"]}

\* the mock order numbered by the clock instead of the scanned code
MockOrderStamped(barcode) ==
    [id |-> 1, order_number |-> <<"O", "R", "D", "-">> \o <<IsoString(clock)>>,
     status |-> "pending", priority |-> "normal"]

\* mockOrder of fetchOrderData
MockOrder(barcode) ==
    [id |-> 1, order_number |-> <<"O", "R", "D", "-">> \o SliceLast(barcode, 6),
     status |-> "pending", priority |-> "normal"]

\* handleBarCodeRead returning early only while a lookup is in flight
HandleBarCodeReadWhileShown(data) ==
    /\ IF ~loading
       THEN /\ scanning' = FALSE
            /\ scannedData' = data
            /\ loading' = TRUE
       ELSE UNCHANGED <<scanning, scannedData, loading>>
    /\ last' = Quiet("handleBarCodeRead")
    /\ UNCHANGED <<storage, screenVars, clock, appVars, pendingLoad, orderData, showOrderModal>>

\* ScannerScreen.handleBarCodeRead up to its await, for a scan event of the
\* camera: `if (!scanning || loading) return;` reads the state of the render
\* that is committed when the event is handled
HandleBarCodeRead(data) ==
    /\ IF scanning /\ ~loading
       THEN /\ scanning' = FALSE
            /\ scannedData' = data
            /\ loading' = TRUE
       ELSE UNCHANGED <<scanning, scannedData, loading>>
    /\ last' = Quiet("handleBarCodeRead")
    /\ UNCHANGED <<storage, screenVars, clock, appVars, pendingLoad, orderData, showOrderModal>>

\* ScannerScreen.fetchOrderData from the answer of axios.get on: the request
\* is sent with axios itself, not with apiClient
FetchOrderData(outcome, order) ==
    /\ loading
    /\ orderData' = (IF outcome = "ok" THEN order ELSE MockOrder(scannedData))
    /\ showOrderModal' = TRUE
    /\ loading' = FALSE
    /\ last' = Requested("fetchOrderData", "none", GetByBarcode, outcome)
    /\ UNCHANGED <<storage, screenVars, clock, appVars, pendingLoad, scanning, scannedData>>

\* what loadPackoutProgress of a packout screen opened for the order reads
SavedProgress(store, order) ==
    IF HasItem(store, PackoutKey(order.id)) THEN store[PackoutKey(order.id)] ELSE Null

\* ScannerScreen.handleOrderSelect: the modal closes and the navigator opens
\* the packout screen with the order and the scanned code as route.params;
\* returned is the progress the opened screen loads. The steps of the opened
\* screen are followed by the actions of the packout screen, not here.
HandleOrderSelect ==
    /\ showOrderModal
    /\ orderData # NoOrder
    /\ showOrderModal' = FALSE
    /\ mounted' = TRUE
    /\ last' = [Quiet("handleOrderSelect") EXCEPT !.returned = SavedProgress(storage, orderData)]
    /\ UNCHANGED <<packoutSteps, compliancePhotos, currentStepIndex, showCamera,
                   cameraType, showCompletionModal>>
    /\ UNCHANGED <<storage, clock, appVars, pendingLoad>>
    /\ UNCHANGED <<scanning, loading, scannedData, orderData>>

\* ScannerScreen.handleRescan
HandleRescan ==
    /\ showOrderModal
    /\ showOrderModal' = FALSE
    /\ orderData' = NoOrder
    /\ scannedData' = NoCode
    /\ scanning' = TRUE
    /\ last' = Quiet("handleRescan")
    /\ UNCHANGED <<storage, screenVars, clock, appVars, pendingLoad, loading>>

NextScanner ==
    \/ Tick
    \/ \E data \in Codes : HandleBarCodeRead(data)
    \/ \E outcome \in ApiOutcomes, order \in ServerOrders : FetchOrderData(outcome, order)
    \/ HandleOrderSelect
    \/ HandleRescan

\* the scanner screen of a logged-in worker
SpecScanner == InitSync /\ [][NextScanner]_vars

----------------------------------------------------------------------------
(* Properties of the scanner screen *)

\* C17: whenever the server answers a request of the application with 401,
\* no token is stored afterwards and isAuthenticated() is false.
C17_RejectedCredentialClearsSession ==
    [][(last'.http = "unauthorized") => ~IsAuthenticated(storage')]_vars

\* the order number of the placeholder for each scanned code: "ORD-" followed
\* by the last six characters of the code
PlaceholderNumber(code) ==
    CASE code = <<"A", "0", "0", "0", "1", "2", "3">> ->
             <<"O", "R", "D", "-", "0", "0", "0", "1", "2", "3">>
      [] code = <<"B", "0", "0", "0", "1", "2", "3">> ->
             <<"O", "R", "D", "-", "0", "0", "0", "1", "2", "3">>
      [] code = <<"4", "5", "6", "7", "8", "9">> ->
             <<"O", "R", "D", "-", "4", "5", "6", "7", "8", "9">>
      [] code = <<"X", "7">> ->
             <<"O", "R", "D", "-", "X", "7">>

\* C20: every lookup ends with an order shown; when the request failed in any
\* way the order is the placeholder with id 1, status pending, priority normal
\* and the number made of the scanned code, whatever the clock, the storage
\* and the order shown before are.
C20_FailedLookupYieldsPlaceholder ==
    [][(last'.op = "fetchOrderData") =>
          /\ orderData' # NoOrder
          /\ showOrderModal' /\ ~loading'
          /\ (last'.http = "ok") => (orderData' \in ServerOrders)
          /\ (last'.http # "ok") =>
                 /\ orderData'.id = 1
                 /\ orderData'.order_number = PlaceholderNumber(scannedData)
                 /\ orderData'.status = "pending"
                 /\ orderData'.priority = "normal"]_vars

\* a lookup of a code longer than six characters failed at a later instant
\* than the start of the screen
C20_Witness ==
    /\ last.op = "fetchOrderData" /\ last.http = "network"
    /\ Len(scannedData) > 6
    /\ orderData = MockOrder(scannedData)
    /\ showOrderModal
    /\ clock > 0

\* C21: the order a lookup shows tells whether the server returned it or the
\* catch block made it up: the order shown after a failed request is none of
\* the orders the server can return.
C21_FallbackOrderIsTold ==
    [][(last'.op = "fetchOrderData" /\ last'.http # "ok") =>
          (orderData' \notin ServerOrders)]_vars

----------------------------------------------------------------------------
(* Further properties of the packout screen *)

\* C24: handlePreviousStep takes one off currentStepIndex whenever it is above
\* 0, whether or not the step shown is completed, and leaves it at 0; it shows
\* no alert and changes no step and no compliance photo.
C24_RetreatNeedsNoCompletion ==
    [][(last'.op = "previous") =>
          /\ currentStepIndex' = (IF currentStepIndex > 0
                                  THEN currentStepIndex - 1 ELSE currentStepIndex)
          /\ last'.alert = "none"
          /\ UNCHANGED <<packoutSteps, compliancePhotos>>]_vars

\* the screen went back from a step that is not completed
C24_Witness ==
    /\ last.op = "previous"
    /\ currentStepIndex + 2 \in DOMAIN packoutSteps
    /\ ~packoutSteps[currentStepIndex + 2].completed
    /\ HasItem(storage, PackoutKey(OrderId))
    /\ storage[PackoutKey(OrderId)].currentStep = currentStepIndex + 1

\* the steps are the steps the screen starts with, in their order
SameStepsInOrder(steps) ==
    /\ DOMAIN steps = DOMAIN InitialSteps
    /\ \A s \in DOMAIN steps : steps[s].id = InitialSteps[s].id

\* C25: in every reachable state, also after the saved progress was loaded,
\* 0 <= currentStepIndex < packoutSteps.length, and the steps are as many and
\* in the same order as at the start.
C25_IndexInRange ==
    /\ currentStepIndex >= 0
    /\ currentStepIndex < Len(packoutSteps)
    /\ SameStepsInOrder(packoutSteps)

\* saved progress with an index above 0 was loaded
C25_Witness ==
    /\ last.op = "enter"
    /\ currentStepIndex > 0
    /\ HasItem(storage, PackoutKey(OrderId))
    /\ storage[PackoutKey(OrderId)].currentStep = currentStepIndex

AllStepsCompleted(steps) == \A s \in DOMAIN steps : steps[s].completed

\* C26: handleSubmitPackout runs only while the completion modal is open; the
\* modal is opened only by handleNextStep at the last index while the step
\* shown is completed, and then every step is completed; the Review button
\* closes it and leaves the screen on the last step with the session as it was.
C26_SubmitOnlyWhenComplete ==
    [][/\ (last'.op = "submit") =>
              (showCompletionModal /\ AllStepsCompleted(packoutSteps))
       /\ (showCompletionModal' /\ ~showCompletionModal) =>
              /\ last'.op = "next"
              /\ currentStepIndex = Len(packoutSteps) - 1
              /\ CurrentStep.completed
              /\ AllStepsCompleted(packoutSteps')
              /\ UNCHANGED Session
       /\ (last'.op = "review") =>
              /\ showCompletionModal /\ ~showCompletionModal'
              /\ currentStepIndex' = Len(packoutSteps') - 1
              /\ UNCHANGED Session]_vars

\* the completion modal was closed with Review
C26_Witness ==
    /\ last.op = "review"
    /\ ~showCompletionModal
    /\ currentStepIndex = Len(packoutSteps) - 1
    /\ AllStepsCompleted(packoutSteps)
    /\ Len(compliancePhotos) = Len(packoutSteps)

\* the uris held in compliancePhotos
PhotoRefs(photos) == {photos[i].uri : i \in 1..Len(photos)}

\* C27: compliancePhotos holds every photo captured: in every reachable state
\* of the open screen every step with photoTaken has its photoUri among the
\* uris of compliancePhotos.
C27_PhotosAreAuditTrail ==
    mounted =>
        \A s \in DOMAIN packoutSteps :
            packoutSteps[s].photoTaken =>
                (packoutSteps[s].photoUri \in PhotoRefs(compliancePhotos))

\* C28: a capture made for the damage or the compliance category leaves
\* photoTaken, photoUri and completed of the step shown as they were.
C28_OptionalPhotoIsNoEvidence ==
    [][(last'.op = "capture" /\ cameraType \in {"damage", "compliance"}) =>
          /\ packoutSteps'[currentStepIndex + 1].photoTaken = CurrentStep.photoTaken
          /\ packoutSteps'[currentStepIndex + 1].photoUri = CurrentStep.photoUri
          /\ packoutSteps'[currentStepIndex + 1].completed = CurrentStep.completed]_vars

\* C29: handleChecklistItemToggle(currentStepIndex, itemId) flips the item
\* named of the step shown and changes no other item, no other step, no photo
\* state, no compliance photo and not currentStepIndex; with an item id the
\* step does not have it changes nothing, storage included.  A capture changes
\* photoTaken, photoUri and completed of the step shown only, no checklist
\* item, no other step and not currentStepIndex.
C29_ToggleAndCaptureAreLocal ==
    [][/\ (last'.op = "toggle" /\ last'.arg \in ItemIds) =>
              /\ packoutSteps'[currentStepIndex + 1].checklistItems =
                     [CurrentStep.checklistItems EXCEPT ![last'.arg] = ~@]
              /\ packoutSteps'[currentStepIndex + 1].photoTaken = CurrentStep.photoTaken
              /\ packoutSteps'[currentStepIndex + 1].photoUri = CurrentStep.photoUri
              /\ \A s \in DOMAIN packoutSteps \ {currentStepIndex + 1} :
                     packoutSteps'[s] = packoutSteps[s]
              /\ UNCHANGED <<compliancePhotos, currentStepIndex>>
       /\ (last'.op = "toggle" /\ last'.arg \notin ItemIds) =>
              UNCHANGED <<packoutSteps, compliancePhotos, currentStepIndex, storage>>
       /\ (last'.op = "capture") =>
              /\ packoutSteps'[currentStepIndex + 1].checklistItems =
                     CurrentStep.checklistItems
              /\ \A s \in DOMAIN packoutSteps \ {currentStepIndex + 1} :
                     packoutSteps'[s] = packoutSteps[s]
              /\ UNCHANGED currentStepIndex]_vars

\* an item of a later step was toggled while an earlier step holds its photo
C29_Witness ==
    /\ last.op = "toggle" /\ last.arg \in ItemIds
    /\ currentStepIndex > 0
    /\ CurrentStep.checklistItems[last.arg]
    /\ packoutSteps[currentStepIndex].photoTaken
    /\ Len(compliancePhotos) > 0

\* C30: handleSubmitPackout sends the completion request whatever the history
\* of the session, reloaded or not, with or without compliance photos; when
\* the server accepts it the success alert is shown and the saved progress is
\* removed.
C30_ResumedSessionIsSubmitted ==
    [][(last'.op = "submit") =>
          /\ last'.sent = <<PostComplete>>
          /\ (last'.http = "ok") =>
                 (last'.alert = "Success" /\ ~HasItem(storage', PackoutKey(OrderId)))]_vars

----------------------------------------------------------------------------
(* The packout screen on a device whose AsyncStorage.setItem rejects and whose
   camera can fail *)

\* savePackoutProgress when setItem rejects: the catch block logs the error
\* and nothing is stored
SavePackoutProgressRejected(store, steps, photos, currentStep) == store

\* savePackoutProgress passing the rejection of setItem on to its caller
SaveSettlesRethrowing(written) == IF written THEN "resolved" ELSE "rejected"

\* how the promise of savePackoutProgress settles: its catch block swallows
\* the rejection of setItem
SaveSettles(written) == "resolved"

HandleChecklistItemToggleUnsaved(itemId) ==
    /\ mounted /\ ~showCamera /\ ~showCompletionModal
    /\ LET stepIndex == currentStepIndex
           updatedSteps == [packoutSteps EXCEPT
                               ![stepIndex + 1] = ToggledStep(@, itemId)]
       IN  IF HasChecklistItem(packoutSteps[stepIndex + 1], itemId)
           THEN /\ packoutSteps' = updatedSteps
                \* the promise of savePackoutProgress is not awaited
                /\ storage' = SavePackoutProgressRejected(storage, updatedSteps,
                                                          compliancePhotos, currentStepIndex)
           ELSE UNCHANGED <<packoutSteps, storage>>
    /\ last' = [Quiet("toggle") EXCEPT !.arg = itemId]
    /\ UNCHANGED <<mounted, compliancePhotos, currentStepIndex, showCamera,
                   cameraType, showCompletionModal, clock>>
    /\ UNCHANGED <<appVars, scannerVars, pendingLoad>>

\* handleCameraCapture awaits savePackoutProgress inside its try block: a
\* rejection would take it to its catch block and the error alert
HandleCameraCaptureUnsaved ==
    /\ mounted /\ showCamera
    /\ clock < MaxClock
    /\ clock' = clock + 1
    /\ LET uri == clock + 1
           updatedSteps == [packoutSteps EXCEPT
                               ![currentStepIndex + 1] = CapturedStep(@, uri)]
           compliancePhoto == [uri |-> uri, type |-> cameraType, notes |-> "",
                               timestamp |-> DateOf(clock + 1)]
       IN  /\ packoutSteps' = updatedSteps
           /\ compliancePhotos' = Append(compliancePhotos, compliancePhoto)
           /\ storage' = SavePackoutProgressRejected(storage, updatedSteps,
                                                     compliancePhotos, currentStepIndex)
    /\ showCamera' = FALSE
    /\ last' = Alerted("capture", IF SaveSettles(FALSE) = "resolved"
                                  THEN "PhotoCaptured" ELSE "CaptureFailed")
    /\ UNCHANGED <<mounted, currentStepIndex, cameraType, showCompletionModal>>
    /\ UNCHANGED <<appVars, scannerVars, pendingLoad>>

HandleNextStepUnsaved ==
    /\ mounted /\ ~showCamera /\ ~showCompletionModal
    /\ LET currentStep == packoutSteps[currentStepIndex + 1]
       IN  IF ~currentStep.completed
           THEN /\ last' = Alerted("next", "StepIncomplete")
                /\ UNCHANGED <<currentStepIndex, storage, showCompletionModal>>
           ELSE IF currentStepIndex < Len(packoutSteps) - 1
           THEN /\ currentStepIndex' = currentStepIndex + 1
                /\ storage' = SavePackoutProgressRejected(storage, packoutSteps,
                                                          compliancePhotos, currentStepIndex)
                /\ last' = Quiet("next")
                /\ UNCHANGED showCompletionModal
           ELSE /\ showCompletionModal' = TRUE
                /\ last' = Quiet("next")
                /\ UNCHANGED <<currentStepIndex, storage>>
    /\ UNCHANGED <<mounted, packoutSteps, compliancePhotos, showCamera, cameraType, clock>>
    /\ UNCHANGED <<appVars, scannerVars, pendingLoad>>

HandlePreviousStepUnsaved ==
    /\ mounted /\ ~showCamera /\ ~showCompletionModal
    /\ IF currentStepIndex > 0
       THEN /\ currentStepIndex' = currentStepIndex - 1
            /\ storage' = SavePackoutProgressRejected(storage, packoutSteps,
                                                      compliancePhotos, currentStepIndex)
       ELSE UNCHANGED <<currentStepIndex, storage>>
    /\ last' = Quiet("previous")
    /\ UNCHANGED <<mounted, packoutSteps, compliancePhotos, showCamera, cameraType,
                   showCompletionModal, clock>>
    /\ UNCHANGED <<appVars, scannerVars, pendingLoad>>

\* the capture button marking the step before takePictureAsync has answered
TakePictureFailsAfterMarking ==
    /\ mounted /\ showCamera
    /\ packoutSteps' = [packoutSteps EXCEPT ![currentStepIndex + 1].photoTaken = TRUE]
    /\ last' = Quiet("takePictureFailed")
    /\ UNCHANGED <<storage, mounted, compliancePhotos, currentStepIndex,
                   showCamera, cameraType, showCompletionModal, clock>>
    /\ UNCHANGED <<appVars, scannerVars, pendingLoad>>

\* the capture button when takePictureAsync rejects: handleCameraCapture is
\* not called and the camera modal stays open
TakePictureFails ==
    /\ mounted /\ showCamera
    /\ last' = Quiet("takePictureFailed")
    /\ UNCHANGED <<storage, screenVars, clock>>
    /\ UNCHANGED <<appVars, scannerVars, pendingLoad>>

NextPackoutFaulty ==
    \/ EnterWorkflow
    \/ \E itemId \in ItemIds \cup {UnknownItemId} : HandleChecklistItemToggleUnsaved(itemId)
    \/ \E photoType \in PhotoTypes : HandleTakePhoto(photoType)
    \/ CloseCamera
    \/ TakePictureFails
    \/ HandleCameraCaptureUnsaved
    \/ HandleNextStepUnsaved
    \/ HandlePreviousStepUnsaved
    \/ ReviewPackout
    \/ \E outcome \in HttpOutcomes : HandleSubmitPackout(outcome)

SpecPackoutFaulty == Init /\ [][NextPackoutFaulty]_vars

\* C22: when AsyncStorage.setItem rejects inside savePackoutProgress, a
\* toggle still flips its item, a capture still marks the step and appends
\* its photo, handleNextStep and handlePreviousStep still move the index, all
\* in memory; nothing is stored and no error alert is shown or thrown.
C22_UnsavedChangeStillApplies ==
    [][/\ (last'.op \in {"toggle", "capture", "next", "previous"}) =>
              (storage' = storage /\ ~last'.threw)
       /\ (last'.op = "toggle" /\ last'.arg \in ItemIds) =>
              /\ packoutSteps'[currentStepIndex + 1].checklistItems =
                     [CurrentStep.checklistItems EXCEPT ![last'.arg] = ~@]
              /\ last'.alert = "none"
       /\ (last'.op = "capture") =>
              /\ packoutSteps'[currentStepIndex + 1].photoTaken
              /\ packoutSteps'[currentStepIndex + 1].photoUri = clock'
              /\ Len(compliancePhotos') = Len(compliancePhotos) + 1
              /\ last'.alert = "PhotoCaptured"
       /\ (last'.op = "next" /\ CurrentStep.completed) =>
              /\ last'.alert = "none"
              /\ IF currentStepIndex < Len(packoutSteps) - 1
                 THEN currentStepIndex' = currentStepIndex + 1
                 ELSE showCompletionModal'
       /\ (last'.op = "previous" /\ currentStepIndex > 0) =>
              /\ currentStepIndex' = currentStepIndex - 1
              /\ last'.alert = "none"]_vars

\* a photo was captured on a later step although nothing could be stored
C22_Witness ==
    /\ last.op = "capture"
    /\ last.alert = "PhotoCaptured"
    /\ currentStepIndex > 0
    /\ CurrentStep.completed
    /\ storage = EmptyStorage

\* C23: when takePictureAsync fails or the camera modal is closed without a
\* capture, no step, no compliance photo, not currentStepIndex and nothing in
\* storage changes.
C23_FailedCaptureChangesNothing ==
    [][(last'.op \in {"takePictureFailed", "closeCamera"}) =>
          UNCHANGED <<packoutSteps, compliancePhotos, currentStepIndex, storage>>]_vars

\* a capture failed on a step that has no photo yet, after an earlier step
\* got its photo
C23_Witness ==
    /\ last.op = "takePictureFailed"
    /\ showCamera
    /\ ~CurrentStep.photoTaken
    /\ currentStepIndex > 0
    /\ Len(compliancePhotos) > 0

----------------------------------------------------------------------------
(* Order of the steps *)

\* C33: in every reachable state of the open screen every step before the one
\* shown is completed, and while the completion modal is open, where Submit
\* builds its payload from packoutSteps, every step is completed.
C33_EarlierStepsCompleted ==
    mounted =>
        /\ \A s \in DOMAIN packoutSteps :
               (s < currentStepIndex + 1) => packoutSteps[s].completed
        /\ showCompletionModal => AllStepsCompleted(packoutSteps)

\* the last step is shown again after its completion was undone
C33_Witness ==
    /\ mounted
    /\ currentStepIndex = Len(packoutSteps) - 1
    /\ currentStepIndex > 0
    /\ ~CurrentStep.completed
    /\ CurrentStep.photoTaken
    /\ last.op = "toggle"

----------------------------------------------------------------------------
(* The credential a request carries *)

\* C31: every request sent through apiClient carries the credential stored
\* when it is dispatched: the token getToken() returns then, the token of the
\* login that has just returned, and none right after a logout.
C31_RequestCarriesStoredCredential ==
    [][(last'.sent # <<>>) =>
           /\ last'.auth = GetToken(storage)
           /\ (last.op = "login" /\ ~last.threw) => (last'.auth = last.returned)
           /\ (last.op = "handleLogout") => (last'.auth = Null)]_vars

\* a completion was sent with the token of a login
C31_Witness ==
    /\ last.op = "completeTask"
    /\ last.sent = <<PostComplete>>
    /\ last.auth = "tokenB"

----------------------------------------------------------------------------
(* Cached reads and queued writes of ordersAPI and packoutTasksAPI *)

GetOrdersRequest == "GET /orders"
GetTasksRequest == "GET /packout-tasks"
PatchOrder == "PATCH /orders"

\* response.data of the two list requests
OrdersData == "orders"
TasksData == "packout_tasks"

\* offlineStorage.getOfflineData(key): parsed.data, or null
GetOfflineData(store, key) == IF HasItem(store, key) THEN store[key].data ELSE Null

\* the shared body of getOrders and getTasks: the answer is stored with
\* storeOfflineData and returned; on a failure the stored answer is returned,
\* and the error is rethrown when there is none
CachedRead(op, request, key, data, outcome) ==
    /\ IF outcome = "ok"
       THEN /\ storage' = StoreOfflineData(storage, key, data, clock)
            /\ last' = [ApiRequested(op, request, outcome, FALSE, {})
                            EXCEPT !.returned = data]
       ELSE LET cleared == ResponseInterceptor(storage, outcome)
                offlineData == GetOfflineData(cleared, key)
            IN  /\ storage' = cleared
                /\ last' = [ApiRequested(op, request, outcome, offlineData = Null, {})
                                EXCEPT !.returned = offlineData]
    /\ UNCHANGED <<screenVars, clock>>
    /\ UNCHANGED <<appVars, scannerVars, pendingLoad>>

\* ordersAPI.getOrders
GetOrders(outcome) ==
    CachedRead("getOrders", GetOrdersRequest, OfflineKey("orders", 0, 0), OrdersData, outcome)

\* packoutTasksAPI.getTasks
GetTasks(outcome) ==
    CachedRead("getTasks", GetTasksRequest, OfflineKey("packout_tasks", 0, 0), TasksData,
               outcome)

\* ordersAPI.updateOrderStatus(orderId, status)
UpdateOrderStatus(orderId, outcome) ==
    /\ IF outcome = "ok"
       THEN /\ storage' = storage
            /\ last' = ApiRequested("updateOrderStatus", PatchOrder, outcome, FALSE, {})
       ELSE /\ storage' = StoreOfflineData(
                              ResponseInterceptor(storage, outcome),
                              OfflineKey("order_status_update", orderId, 0),
                              [orderId |-> orderId, timestamp |-> IsoString(clock)],
                              clock)
            /\ last' = Enqueued("updateOrderStatus", PatchOrder, outcome, storage,
                                OfflineKey("order_status_update", orderId, 0))
    /\ UNCHANGED <<screenVars, clock>>
    /\ UNCHANGED <<appVars, scannerVars, pendingLoad>>

NextCache ==
    \/ Tick
    \/ \E outcome \in ApiOutcomes : CompleteTask(outcome)
    \/ \E taskId \in TaskIds, outcome \in ApiOutcomes : UpdateTask(taskId, outcome)
    \/ \E outcome \in ApiOutcomes : UpdateOrderStatus(OrderId, outcome)
    \/ \E outcome \in ApiOutcomes : GetOrders(outcome)
    \/ \E outcome \in ApiOutcomes : GetTasks(outcome)
    \/ \E outcome \in ApiOutcomes : SyncPendingData(outcome)
    \/ Logout

SpecCache == InitSync /\ [][NextCache]_vars

\* the kinds of key under which a failed mutating call stores its data
EnvelopeKinds == {"complete_task", "update_task", "create_task", "order_status_update"}

\* C34 (as claimed): every key of the offline_ namespace is the envelope of a
\* failed mutating call, and a drain run reads no other key.
C34_OfflineHoldsOnlyEnvelopes ==
    /\ \A k \in OfflineKeys(storage) : k.kind \in EnvelopeKinds
    /\ (last.op = "sync") => (\A k \in last.log : k.kind \in EnvelopeKinds)

\* the step taken is a mutating call that failed
IsFailedMutation ==
    last'.op \in {"completeTask", "updateTask", "updateOrderStatus"} /\ last'.threw

\* C35 (as claimed): a mutating call that fails at an instant at which no
\* stored envelope was written adds one envelope to the ones already queued, so
\* that the envelopes count the failed calls that were not delivered.
C35_FailedCallsHaveOwnEnvelopes ==
    [][(/\ IsFailedMutation
        /\ \A k \in OfflineKeys(storage) : storage[k].timestamp # IsoString(clock))
          => Cardinality(OfflineKeys(storage')) = Cardinality(OfflineKeys(storage)) + 1]_vars

----------------------------------------------------------------------------
(* From the scanner to the packout screen and back *)

\* a server that keeps one order per code
OrderOfCode(code) ==
    CASE code = <<"A", "0", "0", "0", "1", "2", "3">> ->
             [id |-> 42, order_number |-> <<"O", "R", "D", "-", "4", "2">>,
              status |-> "pending", priority |-> "high"]
      [] code = <<"B", "0", "0", "0", "1", "2", "3">> ->
             [id |-> 43, order_number |-> <<"O", "R", "D", "-", "4", "3">>,
              status |-> "pending", priority |-> "normal"]
      [] code = <<"4", "5", "6", "7", "8", "9">> ->
             [id |-> 44, order_number |-> <<"O", "R", "D", "-", "4", "4">>,
              status |-> "processing", priority |-> "normal"]
      [] code = <<"X", "7">> ->
             [id |-> 45, order_number |-> <<"O", "R", "D", "-", "4", "5">>,
              status |-> "pending", priority |-> "urgent"]

\* savePackoutProgress of the screen opened with route.params = {order:
\* orderData, scannedCode: scannedData}: the progress is written under
\* packout_<order.id>. The progress is represented by the code of the workflow
\* that wrote it.
RouteSavePackoutProgress ==
    /\ mounted
    /\ storage' = SetItem(storage, PackoutKey(orderData.id), [scannedCode |-> scannedData])
    /\ last' = Quiet("savePackoutProgress")
    /\ UNCHANGED <<screenVars, clock, appVars, scannerVars, pendingLoad>>

\* handleSubmitPackout of the opened screen answered 2xx: the progress of the
\* order is removed and OK of the alert navigates to the Scanner route, which
\* is the mounted scanner screen below the packout screen
RouteSubmitted ==
    /\ mounted
    /\ storage' = RemoveItem(storage, PackoutKey(orderData.id))
    /\ mounted' = FALSE
    /\ last' = Requested("submit", "Packout Completed", PostComplete, "ok")
    /\ UNCHANGED <<packoutSteps, compliancePhotos, currentStepIndex, showCamera,
                   cameraType, showCompletionModal>>
    /\ UNCHANGED <<clock, appVars, scannerVars, pendingLoad>>

\* the worker leaves the packout screen with the back button of the stack
RouteBack ==
    /\ mounted
    /\ mounted' = FALSE
    /\ last' = Quiet("back")
    /\ UNCHANGED <<packoutSteps, compliancePhotos, currentStepIndex, showCamera,
                   cameraType, showCompletionModal>>
    /\ UNCHANGED <<storage, clock, appVars, scannerVars, pendingLoad>>

\* the application is started again: the scanner screen, the initial route,
\* mounts with its useState defaults
ScannerMount ==
    /\ mounted' = FALSE
    /\ scanning' = TRUE
    /\ loading' = FALSE
    /\ scannedData' = NoCode
    /\ orderData' = NoOrder
    /\ showOrderModal' = FALSE
    /\ last' = Quiet("scannerMount")
    /\ UNCHANGED <<packoutSteps, compliancePhotos, currentStepIndex, showCamera,
                   cameraType, showCompletionModal>>
    /\ UNCHANGED <<storage, clock, appVars, pendingLoad>>

NextScannerFlow ==
    \/ \E data \in Codes : HandleBarCodeRead(data)
    \/ \E outcome \in ApiOutcomes : FetchOrderData(outcome, OrderOfCode(scannedData))
    \/ HandleOrderSelect
    \/ HandleRescan
    \/ RouteSavePackoutProgress
    \/ RouteSubmitted
    \/ RouteBack
    \/ ScannerMount

\* the scanner screen and the navigation between it and the packout screen,
\* with a server that answers every code with the order of that code
SpecScannerFlow == InitSync /\ [][NextScannerFlow]_vars

\* C36 (as claimed): a packout screen opened for a scanned code loads only
\* progress that a workflow opened for the same code has saved.
C36_EachCodeHasItsOwnSession ==
    [][(last'.op = "handleOrderSelect" /\ HasItem(storage, PackoutKey(orderData.id)))
          => (last'.returned.scannedCode = scannedData)]_vars

\* C37: a scan event is accepted only when scanning is on and no lookup is in
\* flight, and then starts the one lookup in flight; while a lookup is in
\* flight or its result is shown a scan event changes nothing; a lookup is in
\* flight only with scanning off and no result shown, and ends with exactly
\* one order shown.
C37_OneLookupAtATime ==
    /\ [](loading => (~scanning /\ ~showOrderModal /\ scannedData \in Codes))
    /\ [](showOrderModal => (~scanning /\ ~loading /\ orderData # NoOrder))
    /\ [][/\ (last'.op = "handleBarCodeRead" /\ scanning /\ ~loading)
               => (loading' /\ ~scanning' /\ scannedData' \in Codes
                   /\ UNCHANGED <<orderData, showOrderModal, storage>>)
          /\ (last'.op = "handleBarCodeRead" /\ (~scanning \/ loading))
               => UNCHANGED <<scannerVars, storage, screenVars>>
          /\ (last'.op = "fetchOrderData")
               => (loading /\ ~loading' /\ showOrderModal' /\ orderData' # NoOrder
                   /\ scannedData' = scannedData)]_vars

\* a scan event was ignored while the order of an earlier scan was shown
C37_Witness ==
    /\ last.op = "handleBarCodeRead"
    /\ showOrderModal
    /\ orderData # NoOrder
    /\ ~scanning /\ ~loading

\* C38 (as claimed): whenever the scanner screen is in front with no lookup in
\* flight and no result shown, scanning is on, so that the next scan event is
\* accepted.
C38_ScannerNeverStaysDisabled ==
    (~mounted /\ ~loading /\ ~showOrderModal) => scanning

----------------------------------------------------------------------------
(* The load of the saved progress next to the handlers of the packout screen *)

\* the component mounts with its useState defaults and its effect calls
\* loadPackoutProgress, which runs up to `await AsyncStorage.getItem`: the read
\* is handed to the storage and its answer is awaited
MountScreen ==
    /\ mounted' = TRUE
    /\ showCamera' = FALSE
    /\ cameraType' = "package"
    /\ showCompletionModal' = FALSE
    /\ packoutSteps' = InitialSteps
    /\ compliancePhotos' = <<>>
    /\ currentStepIndex' = 0
    /\ pendingLoad' = IF HasItem(storage, PackoutKey(OrderId))
                      THEN [pending |-> TRUE, found |-> TRUE,
                            progress |-> storage[PackoutKey(OrderId)]]
                      ELSE [NoLoad EXCEPT !.pending = TRUE]
    /\ last' = Quiet("mount")
    /\ UNCHANGED <<storage, clock>>
    /\ UNCHANGED <<appVars, scannerVars>>

\* loadPackoutProgress from the answer of getItem on
LoadPackoutProgressSettles ==
    /\ mounted
    /\ pendingLoad.pending
    /\ IF pendingLoad.found
       THEN LET progress == pendingLoad.progress
            IN  /\ packoutSteps' = progress.steps
                /\ compliancePhotos' = progress.photos
                /\ currentStepIndex' = IF progress.currentStep # 0
                                       THEN progress.currentStep ELSE 0
       ELSE UNCHANGED <<packoutSteps, compliancePhotos, currentStepIndex>>
    /\ pendingLoad' = NoLoad
    /\ last' = Quiet("load")
    /\ UNCHANGED <<storage, mounted, showCamera, cameraType, showCompletionModal, clock>>
    /\ UNCHANGED <<appVars, scannerVars>>

NextPackoutRace ==
    \/ MountScreen
    \/ LoadPackoutProgressSettles
    \/ \E itemId \in ItemIds : HandleChecklistItemToggle(itemId)
    \/ \E photoType \in PhotoTypes : HandleTakePhoto(photoType)
    \/ CloseCamera
    \/ HandleCameraCapture
    \/ HandleNextStep
    \/ HandlePreviousStep
    \/ ReviewPackout
    \/ \E outcome \in HttpOutcomes : HandleSubmitPackout(outcome)

\* the packout screen with the load of the saved progress as a step of its own
SpecPackoutRace == Init /\ [][NextPackoutRace]_vars

\* C32 (as claimed): the load started on entering the screen never overwrites
\* what a handler has done since: when a load that found saved progress
\* settles, the steps, the photos and the index are still the ones the screen
\* was mounted with.
C32_LoadSettlesBeforeAnyMutation ==
    [][(last'.op = "load" /\ pendingLoad.found)
          => (Session = <<InitialSteps, <<>>, 0>>)]_vars

----------------------------------------------------------------------------
(* Deliveries of a completion *)

NextDelivery ==
    \/ EnterWorkflow
    \/ \E itemId \in ItemIds : HandleChecklistItemToggle(itemId)
    \/ HandleTakePhoto("package")
    \/ CloseCamera
    \/ HandleCameraCapture
    \/ HandleNextStep
    \/ HandlePreviousStep
    \/ ReviewPackout
    \/ \E outcome \in HttpOutcomes : HandleSubmitPackout(outcome)
    \/ \E outcome \in ApiOutcomes : SyncPendingData(outcome)

\* the packout screen together with the drain of the offline queue
SpecDelivery == Init /\ [][NextDelivery]_vars

\* the step taken is one in which the server accepted a completion
IsDelivery ==
    /\ last'.http = "ok"
    /\ \E i \in 1..Len(last'.sent) : last'.sent[i] = PostComplete

====
